---- MODULE Spec2Model ----
(***************************************************************************)
(* foam.dao.MDAO: an in-memory DAO that keeps one AltIndex (a multiplexer  *)
(* over alternative TreeIndexes) and one index-state token, state_.        *)
(*                                                                         *)
(* The facade (MDAO.java) is translated from its source.  AltIndex,        *)
(* TreeIndex, the plans, Predicate.partialEval and                         *)
(* AbstractFObject.maybeClone belong to the same repository but their      *)
(* source is not at hand; they are modelled from the design document       *)
(* (sections 4.1 - 4.5) and marked so in the model map.                    *)
(*                                                                         *)
(* Java references are modelled explicitly where identity matters:         *)
(*   - an index-state token is a cell of `heap`; state_ and the reader's   *)
(*     retained token `held` are references to cells;                      *)
(*   - the record object most recently handed to put_ is marked in the     *)
(*     entries that reference it (field al), so that a caller mutating     *)
(*     that very object changes what the index holds.                      *)
(***************************************************************************)
EXTENDS Integers, Sequences, FiniteSets, TLC

\* ------------------------------------------------------------------ bounds
MaxId  == 2        \* primary keys are 1..MaxId
MaxAlt == 3        \* at most MaxAlt alternatives are registered

\* AbstractDAO.MAX_SAFE_INTEGER, the "no limit" value; any number above the
\* largest possible result size behaves alike.
MAX_SAFE_INTEGER == 1000000

Ids      == 1..MaxId
AVals    == {5, 7}
SecProps == {"a"}                 \* properties addIndex may be given
Tokens   == {1, 2, 3, 4}          \* cells for index states: two referenced, two being built
Null     == 0                     \* the null token

\* ------------------------------------------------------------------ records
Record  == [id : Ids, a : AVals]
NullObj == [id |-> 0, a |-> 0]    \* Java null where an FObject is expected

Val(r, p) == IF p = "id" THEN r.id ELSE r.a

\* An index entry: the record object, the key it was filed under, and
\* whether it is the object the caller last passed to put_.
Entry(k, r, al) == [k |-> k, rec |-> r, al |-> al]
NoEntry == Entry(0, NullObj, FALSE)

\* An FObject reference as returned to a caller: its value and whether it is
\* the stored object itself (stored) or a fresh object.
Obj(r, stored) == [rec |-> r, stored |-> stored]
NoObj == Obj(NullObj, FALSE)

\* ------------------------------------------------------------------ TreeIndex
\* A TreeIndex state on property p is an ordered map key -> tail index on
\* id -> record; it is represented by its set of entries, unique by (k, id).
TreePut(p, slot, r, al) ==
  { x \in slot : ~(x.k = Val(r, p) /\ x.rec.id = r.id) } \cup { Entry(Val(r, p), r, al) }

TreeRemove(p, slot, r) ==
  { x \in slot : ~(x.k = Val(r, p) /\ x.rec.id = r.id) }

\* ------------------------------------------------------------------ AltIndex
\* The composite state is array-shaped, one slot per alternative; a null
\* state, and the slot of an alternative registered after the array was
\* built, is an empty tree.
toObjectArray(dl, st) ==
  [i \in 1..Len(dl) |-> IF i <= Len(st) THEN st[i] ELSE {}]

AltPut(dl, st, r, al) ==
  [i \in 1..Len(dl) |-> TreePut(dl[i], toObjectArray(dl, st)[i], r, al)]

AltRemove(dl, st, r) ==
  [i \in 1..Len(dl) |-> TreeRemove(dl[i], toObjectArray(dl, st)[i], r)]

\* planFind: the alternative keyed on the primary key offers the lookup;
\* it is the first-registered one, so it wins every tie.
FindAlt(dl) == CHOOSE i \in 1..Len(dl) : dl[i] = "id" /\ \A j \in 1..Len(dl) : dl[j] = "id" => i <= j

AltFind(dl, st, key) ==
  LET slot == toObjectArray(dl, st)[FindAlt(dl)]
      hit  == { x \in slot : x.k = key }
  IN  IF hit = {} THEN NoEntry ELSE CHOOSE x \in hit : TRUE

\* ------------------------------------------------------------------ predicates
\* foam.mlang.predicate: Eq on a property, And, Or; NoPred is a null predicate.
Eq(p, v)  == [op |-> "eq",   p |-> p,  v |-> v, args |-> <<>>]
And(args) == [op |-> "and",  p |-> "", v |-> 0, args |-> args]
Or(args)  == [op |-> "or",   p |-> "", v |-> 0, args |-> args]
NoPred    == [op |-> "null", p |-> "", v |-> 0, args |-> <<>>]

\* Predicate.f(obj)
RECURSIVE Eval(_, _)
Eval(p, r) ==
  CASE p.op = "eq"  -> Val(r, p.p) = p.v
    [] p.op = "and" -> \A i \in 1..Len(p.args) : Eval(p.args[i], r)
    [] p.op = "or"  -> \E i \in 1..Len(p.args) : Eval(p.args[i], r)
    [] OTHER        -> TRUE

\* The arguments of nested conjunctions spliced into one list.
RECURSIVE FlattenAnd(_)
FlattenAnd(as) ==
  IF as = <<>> THEN <<>>
  ELSE (IF Head(as).op = "and" THEN Head(as).args ELSE <<Head(as)>>) \o FlattenAnd(Tail(as))

\* Predicate.partialEval: And(EQ()) ==> EQ(), And(And(EQ()),GT()) ==> And(EQ(),GT())
RECURSIVE partialEval(_)
partialEval(p) ==
  CASE p.op = "and" ->
         LET flat == FlattenAnd([i \in 1..Len(p.args) |-> partialEval(p.args[i])])
         IN  IF Len(flat) = 1 THEN flat[1] ELSE And(flat)
    [] p.op = "or"  -> Or([i \in 1..Len(p.args) |-> partialEval(p.args[i])])
    [] OTHER        -> p

\* ------------------------------------------------------------------ plans
Min(a, b) == IF a <= b THEN a ELSE b

\* The entries of a tree in its natural order: by key, ties by primary key.
Before(x, y) == x.k < y.k \/ (x.k = y.k /\ x.rec.id <= y.rec.id)

RECURSIVE Scan(_)
Scan(S) ==
  IF S = {} THEN <<>>
  ELSE LET m == CHOOSE x \in S : \A y \in S : Before(x, y)
       IN  <<m.rec>> \o Scan(S \ {m})

\* Stable sort of a result list by the comparator's property.
RECURSIVE Insert(_, _, _)
Insert(order, r, seq) ==
  IF seq = <<>> THEN <<r>>
  ELSE IF Val(Head(seq), order) <= Val(r, order)
       THEN <<Head(seq)>> \o Insert(order, r, Tail(seq))
       ELSE <<r>> \o seq

RECURSIVE SortBy(_, _)
SortBy(order, seq) ==
  IF order = "none" \/ seq = <<>> THEN seq
  ELSE Insert(order, seq[Len(seq)], SortBy(order, SubSeq(seq, 1, Len(seq) - 1)))

Window(seq, skip, limit) == SubSeq(seq, skip + 1, Min(Len(seq), skip + limit))

\* TreeIndex.planSelect, the cost of the candidate plan: an empty tree gives a
\* zero-cost empty plan, equality on the indexed property a range scan whose
\* cost is its match count, anything else a scan of the whole tree.
TreeCost(p, slot, pred) ==
  IF slot = {} THEN 0
  ELSE IF pred.op = "eq" /\ pred.p = p
       THEN Cardinality({ x \in slot : x.k = pred.v })
       ELSE Cardinality(slot)

\* The plan's execution: what it pushes to the sink.
TreeSelect(p, slot, skip, limit, order, pred) ==
  LET hits == IF pred.op = "eq" /\ pred.p = p
              THEN { x \in slot : x.k = pred.v }
              ELSE { x \in slot : Eval(pred, x.rec) }
  IN  Window(SortBy(order, Scan(hits)), skip, limit)

\* planSelect keeping the latest-registered alternative among equals.
BestAltLatest(dl, st, pred) ==
  LET cost == [i \in 1..Len(dl) |-> TreeCost(dl[i], toObjectArray(dl, st)[i], pred)]
  IN  CHOOSE i \in 1..Len(dl) :
        \A j \in 1..Len(dl) : cost[i] < cost[j] \/ (cost[i] = cost[j] /\ i >= j)

\* AltIndex.planSelect: the cheapest candidate, the earliest-registered
\* alternative among equals.
BestAlt(dl, st, pred) ==
  LET cost == [i \in 1..Len(dl) |-> TreeCost(dl[i], toObjectArray(dl, st)[i], pred)]
  IN  CHOOSE i \in 1..Len(dl) :
        \A j \in 1..Len(dl) : cost[i] < cost[j] \/ (cost[i] = cost[j] /\ i <= j)

AltSelect(dl, st, skip, limit, order, pred) ==
  LET i == BestAlt(dl, st, pred)
  IN  TreeSelect(dl[i], toObjectArray(dl, st)[i], skip, limit, order, pred)

\* ------------------------------------------------------------------ state
VARIABLES
  delegates,   \* index_.delegates_: the properties of the registered alternatives
  state_,      \* MDAO.state_: a token (cell of heap) or Null
  heap,        \* token -> composite index state (<<>> for a free cell)
  held,        \* a token a reader obtained earlier and still holds
  heldView,    \* what that token held when the reader obtained it
  shadow,      \* per key, the record most recently put and not removed since
  cleared,     \* whether removeAll_ ran with no put_ since, the keys and records it wiped
  late,        \* an alternative was registered while state_ was not null
  last,        \* the most recent call: its arguments and what it returned
  calls,       \* per thread, the put_ or remove_ call it is executing step by step
  handlerMap_, \* NanoRouter.handlerMap_: service name -> cached servlet (0: no mapping)
  made,        \* per service name, how many servlets createServlet has constructed
  reqs         \* per thread, the getServlet call it is executing step by step

vars == <<delegates, state_, heap, held, heldView, shadow, cleared, late, last, calls,
          handlerMap_, made, reqs>>

\* What the calls of one caller at a time leave alone.
others == <<calls, handlerMap_, made, reqs>>

mdao == <<delegates, state_, heap, held, heldView, shadow, cleared, late, last, calls>>

Threads == {1, 2}

Free == <<>>

Deref(h, t) == IF t = Null THEN <<>> ELSE h[t]

\* Entries compared as records only (the al mark is bookkeeping of references).
Strip(st) == [i \in 1..Len(st) |-> { <<x.k, x.rec>> : x \in st[i] }]

\* ------------------------------------------------------------------ tokens
\* An Index operation consumes a state and returns a new one: the result is
\* built in a fresh cell and the consumed cell is left as it was.
NewTok(h, busy) ==
  CHOOSE t \in Tokens \ busy : h[t] = Free /\ \A u \in Tokens \ busy : h[u] = Free => t <= u

CopyOnWrite(h, t, val) ==
  LET n == NewTok(h, {t}) IN [h |-> [h EXCEPT ![n] = val], t |-> n]

\* Cells no reference reaches are reclaimed and the live ones moved to the
\* front, the references following them: s is state_, r the reader's token.
\* A token's number means nothing beyond which references are equal.
Collect(h, s, r) ==
  LET s2 == IF s = Null THEN Null ELSE 1
      r2 == IF r = Null THEN Null ELSE IF r = s \/ s = Null THEN 1 ELSE 2
  IN  [h |-> [t \in Tokens |-> IF t = s2 THEN h[s] ELSE IF t = r2 THEN h[r] ELSE Free],
       s |-> s2, r |-> r2]

\* The caller holds one put object at most: a new put_ supersedes the mark.
Unmark(h) == [t \in Tokens |-> [i \in 1..Len(h[t]) |-> { Entry(x.k, x.rec, FALSE) : x \in h[t][i] }]]

\* obj.setA(v) on the marked object: every entry referencing it shows the
\* new value, filed where it was.
SetMarked(h, v) ==
  [t \in Tokens |-> [i \in 1..Len(h[t]) |->
     { IF x.al THEN Entry(x.k, [x.rec EXCEPT !.a = v], TRUE) ELSE x : x \in h[t][i] }]]

\* The same on the stored object a reference r designates.
SetStored(h, r, v) ==
  [t \in Tokens |-> [i \in 1..Len(h[t]) |->
     { IF x.rec = r THEN Entry(x.k, [x.rec EXCEPT !.a = v], x.al) ELSE x : x \in h[t][i] }]]

Marked(h) == { x \in UNION { UNION { h[t][i] : i \in 1..Len(h[t]) } : t \in Tokens } : x.al }

\* ------------------------------------------------------------------ calls
Query(pred, skip, limit, order) == [pred |-> pred, skip |-> skip, limit |-> limit, order |-> order]
NoQuery == Query(NoPred, 0, 0, "none")

\* The queries the callers issue.
AAtoms  == { Eq("a", v) : v \in AVals }
IdAtoms == { Eq("id", i) : i \in Ids }
Atoms   == AAtoms \cup IdAtoms
Ands    == { And(<<x>>) : x \in AAtoms }
             \cup { And(<<And(<<x>>), Eq("id", 1)>>) : x \in AAtoms }
Ors     == { Or(<<x, y>>) : x \in AAtoms, y \in Atoms }
             \cup { And(<<Or(<<x, y>>)>>) : x \in {Eq("a", 5)}, y \in {Eq("a", 7)} }
Preds   == {NoPred} \cup Atoms \cup Ands \cup Ors
\* Every predicate unwindowed; some of them ordered and windowed.
Plain(p) == Query(p, 0, MAX_SAFE_INTEGER, "none")
Windowed == { Query(p, w[1], w[2], "a") :
                p \in { NoPred, Or(<<Eq("a", 7), Eq("a", 5)>>), Or(<<Eq("a", 7), Eq("a", 7)>>),
                        Or(<<Eq("a", 7), Eq("a", 5), Eq("a", 7)>>) },
                w \in { <<0, MAX_SAFE_INTEGER>>, <<1, 1>>, <<1, MAX_SAFE_INTEGER>> } }
Queries  == { Plain(p) : p \in Preds } \cup Windowed
\* removeAll_ ignores its arguments; a few of them are enough.
RemoveAllQueries ==
  { Plain(NoPred), Plain(Eq("a", 5)), Query(NoPred, 1, 1, "a"), Query(Eq("a", 5), 1, 1, "a") }

\* What find and remove are given: a raw key, a record, or null.
KeyArg(k) == [kind |-> "key", key |-> k, rec |-> NullObj]
ObjArg(r) == [kind |-> "obj", key |-> 0, rec |-> r]
NullArg   == [kind |-> "null", key |-> 0, rec |-> NullObj]
FindArgs  == { KeyArg(k) : k \in Ids } \cup { ObjArg(r) : r \in Record } \cup { NullArg }
RemoveArgs == { ObjArg(r) : r \in Record } \cup { NullArg }
\* The primary key an argument stands for.
KeyOf(o) == IF o.kind = "obj" THEN o.rec.id ELSE o.key

\* fresh: the call left state_ referring to another token than before;
\* old: the record stored under the call's key when the call began.
Call(op, arg, ret) ==
  [op |-> op, arg |-> arg, ret |-> ret, q |-> NoQuery, sink |-> <<>>,
   fresh |-> FALSE, old |-> NullObj]

\* AbstractFObject.maybeClone: null for null, otherwise a fresh copy.
maybeClone(e) == IF e = NoEntry THEN NoObj ELSE Obj(e.rec, FALSE)

\* find_ handing out the stored object itself instead of maybeClone's copy.
findNoClone(dl, st, o) ==
  LET e == IF o.kind = "obj" THEN AltFind(dl, st, o.rec.id) ELSE AltFind(dl, st, o.key)
  IN  IF o.kind = "null" \/ e = NoEntry THEN NoObj ELSE Obj(e.rec, TRUE)

\* MDAO.find_ as a function of the state: the object handed to the caller.
find(dl, st, o) ==
  IF o.kind = "null" THEN NoObj
  ELSE maybeClone(IF o.kind = "obj" THEN AltFind(dl, st, o.rec.id)
                                     ELSE AltFind(dl, st, o.key))

\* put_ without the removal of the old value.
putStateNoRemove(dl, st, oldValue, obj, keep) == AltPut(dl, st, obj, keep)

\* The index state MDAO.put_ leaves: the old value out, the new one in.
putState(dl, st, oldValue, obj, keep) ==
  AltPut(dl, IF oldValue # NoObj THEN AltRemove(dl, st, oldValue.rec) ELSE st, obj, keep)

\* remove_ dropping the state index_.remove returns.
removeWriteDropped(h, t, dl, st, found) == [h |-> h, t |-> t]

\* remove_ calling index_.remove whether or not the record was found.
removeWriteAlways(h, t, dl, st, found) ==
  CopyOnWrite(h, t, IF found # NoObj THEN AltRemove(dl, st, found.rec) ELSE toObjectArray(dl, st))

\* MDAO.remove_: state_ is replaced only when the record was found.
removeWrite(h, t, dl, st, found) ==
  IF found # NoObj
  THEN CopyOnWrite(h, t, AltRemove(dl, st, found.rec))
  ELSE [h |-> h, t |-> t]

\* OrPlan: every sub-plan runs unwindowed and unordered into one buffer;
\* order, skip and limit are applied to the buffer on the way to the sink.
RECURSIVE OrBuffer(_, _, _, _)
OrBuffer(dl, st, args, i) ==
  IF i > Len(args) THEN <<>>
  ELSE AltSelect(dl, st, 0, MAX_SAFE_INTEGER, "none", args[i]) \o OrBuffer(dl, st, args, i + 1)

OrSelect(dl, st, skip, limit, order, pred) ==
  Window(SortBy(order, OrBuffer(dl, st, pred.args, 1)), skip, limit)

\* The predicate MDAO.select_ plans with.
simplePredicate(predicate) == IF predicate # NoPred THEN partialEval(predicate) ELSE NoPred

\* select_ planning every disjunct with the whole disjunction.
RECURSIVE OrBufferWhole(_, _, _, _)
OrBufferWhole(dl, st, pred, i) ==
  IF i > Len(pred.args) THEN <<>>
  ELSE AltSelect(dl, st, 0, MAX_SAFE_INTEGER, "none", pred) \o OrBufferWhole(dl, st, pred, i + 1)

selectWholeOr(dl, st, q, simple) ==
  IF simple.op = "or"
  THEN Window(SortBy(q.order, OrBufferWhole(dl, st, simple, 1)), q.skip, q.limit)
  ELSE AltSelect(dl, st, q.skip, q.limit, q.order, simple)

\* select_ handing the caller's skip, limit and order to every sub-plan.
RECURSIVE OrBufferWindowed(_, _, _, _, _)
OrBufferWindowed(dl, st, q, args, i) ==
  IF i > Len(args) THEN <<>>
  ELSE AltSelect(dl, st, q.skip, q.limit, q.order, args[i]) \o OrBufferWindowed(dl, st, q, args, i + 1)

selectWindowedSubPlans(dl, st, q, simple) ==
  IF simple.op = "or"
  THEN OrBufferWindowed(dl, st, q, simple.args, 1)
  ELSE AltSelect(dl, st, q.skip, q.limit, q.order, simple)

\* MDAO.select_ as a function of the state: what the sink receives.
select(dl, st, q, simple) ==
  IF simple.op = "or"
  THEN OrSelect(dl, st, q.skip, q.limit, q.order, simple)
  ELSE AltSelect(dl, st, q.skip, q.limit, q.order, simple)

\* A call in progress: where the thread is in put_/remove_ and its locals
\* (oldValue/found, and the index state index_.remove or index_.put returned
\* to it and it has not yet assigned to state_).
ThreadCall(pc, op, obj, oldValue, res) ==
  [pc |-> pc, op |-> op, obj |-> obj, oldValue |-> oldValue, res |-> res]
Idle == ThreadCall("idle", "none", NullObj, NoObj, <<>>)

\* foam.nanos.http.NanoRouter: the services requests name.  "dao" is served
\* through a skeleton, so createServlet returns a new ServiceServlet for it;
\* "plain" is no HttpServlet, so createServlet returns null for it.
Names == {"dao", "auth", "plain"}
IsServlet(n) == n # "plain"
NoServlet == 0

\* A getServlet call in progress: where the thread is, the name of its
\* NSpec ("none" when nSpecDAO found none), the servlet createServlet handed
\* it, and what it returned.
Request(pc, name, serv, ret) == [pc |-> pc, name |-> name, serv |-> serv, ret |-> ret]
NoRequest == Request("idle", "none", NoServlet, NoServlet)

Init ==
  /\ delegates = <<"id">>
  /\ state_ = Null
  /\ heap = [t \in Tokens |-> Free]
  /\ held = Null
  /\ heldView = <<>>
  /\ shadow = [k \in Ids |-> NullObj]
  /\ cleared = [on |-> FALSE, keys |-> {}, recs |-> {}]
  /\ late = FALSE
  /\ last = Call("new", NullArg, NoObj)
  /\ calls = [t \in Threads |-> Idle]
  /\ handlerMap_ = [n \in Names |-> NoServlet]
  /\ made = [n \in Names |-> 0]
  /\ reqs = [t \in Threads |-> NoRequest]

addIndex(prop) ==
  /\ Len(delegates) < MaxAlt
  /\ delegates' = Append(delegates, prop)
  /\ late' = (late \/ state_ # Null)
  /\ last' = Call("addIndex", NullArg, NoObj)
  /\ UNCHANGED others /\ UNCHANGED <<state_, heap, held, heldView, shadow, cleared>>

\* keep: the caller goes on holding a reference to obj after the call.
put_(obj, keep) ==
  \E h \in { Unmark(heap) } :
  \E st \in { Deref(h, state_) } :
  \E oldValue \in { find(delegates, st, ObjArg(obj)) } :
  \E w \in { CopyOnWrite(h, state_, putState(delegates, st, oldValue, obj, keep)) } :
  \E c \in { Collect(w.h, w.t, held) } :
      /\ state_' = c.s
      /\ heap' = c.h
      /\ held' = c.r
      /\ shadow' = [shadow EXCEPT ![obj.id] = obj]
      /\ cleared' = [on |-> FALSE, keys |-> {}, recs |-> {}]
      /\ last' = [Call("put", ObjArg(obj), Obj(obj, TRUE)) EXCEPT
                    !.fresh = (w.t # state_), !.old = shadow[obj.id]]
      /\ UNCHANGED others /\ UNCHANGED <<delegates, heldView, late>>

remove_(o) ==
  IF o.kind = "null"
  THEN /\ last' = Call("remove", o, NoObj)
       /\ UNCHANGED others /\ UNCHANGED <<delegates, state_, heap, held, heldView, shadow, cleared, late>>
  ELSE \E st \in { Deref(heap, state_) } :
       \E found \in { find(delegates, st, o) } :
       \E w \in { removeWrite(heap, state_, delegates, st, found) } :
       \E c \in { Collect(w.h, w.t, held) } :
           /\ state_' = c.s
           /\ heap' = c.h
           /\ held' = c.r
           /\ shadow' = [shadow EXCEPT ![KeyOf(o)] = NullObj]
           /\ last' = [Call("remove", o, found) EXCEPT
                         !.fresh = (w.t # state_), !.old = shadow[KeyOf(o)]]
           /\ UNCHANGED others /\ UNCHANGED <<delegates, heldView, cleared, late>>

find_(o) ==
  /\ last' = Call("find", o, find(delegates, Deref(heap, state_), o))
  /\ UNCHANGED others /\ UNCHANGED <<delegates, state_, heap, held, heldView, shadow, cleared, late>>

\* select_ dropping the state token once the plan has run.
select_Consuming(q) ==
  \E st \in { Deref(heap, state_) } :
  \E simple \in { simplePredicate(q.pred) } :
  \E sink \in { select(delegates, st, q, simple) } :
  /\ last' = [Call("select", NullArg, NoObj) EXCEPT !.q = q, !.sink = sink]
  /\ state_' = Null
  /\ UNCHANGED others /\ UNCHANGED <<delegates, heap, held, heldView, shadow, cleared, late>>

select_(q) ==
  \E st \in { Deref(heap, state_) } :
  \E simple \in { simplePredicate(q.pred) } :
  \E sink \in { select(delegates, st, q, simple) } :
  /\ last' = [Call("select", NullArg, NoObj) EXCEPT !.q = q, !.sink = sink]
  /\ UNCHANGED others /\ UNCHANGED <<delegates, state_, heap, held, heldView, shadow, cleared, late>>

\* removeAll_ honouring its predicate: only the matching records go.
removeAll_Filtered(q) ==
  \E st \in { Deref(heap, state_) } :
  \E w \in { CopyOnWrite(heap, state_,
               [i \in 1..Len(st) |-> { x \in st[i] : ~Eval(q.pred, x.rec) }]) } :
  \E c \in { Collect(w.h, w.t, held) } :
      /\ state_' = c.s
      /\ heap' = c.h
      /\ held' = c.r
      /\ shadow' = [k \in Ids |-> NullObj]
      /\ cleared' = [on |-> TRUE, keys |-> { k \in Ids : shadow[k] # NullObj },
                   recs |-> { shadow[k] : k \in Ids } \ {NullObj}]
      /\ late' = FALSE
      /\ last' = [Call("removeAll", NullArg, NoObj) EXCEPT !.q = q, !.fresh = TRUE]
      /\ UNCHANGED others /\ UNCHANGED <<delegates, heldView>>

\* removeAll_ emptying the current index state in place.
removeAll_InPlace(q) ==
  \E h \in { IF state_ = Null THEN heap
             ELSE [heap EXCEPT ![state_] = [i \in 1..Len(heap[state_]) |-> {}]] } :
      /\ heap' = h
      /\ shadow' = [k \in Ids |-> NullObj]
      /\ cleared' = [on |-> TRUE, keys |-> { k \in Ids : shadow[k] # NullObj },
                   recs |-> { shadow[k] : k \in Ids } \ {NullObj}]
      /\ late' = FALSE
      /\ last' = [Call("removeAll", NullArg, NoObj) EXCEPT !.q = q]
      /\ UNCHANGED others /\ UNCHANGED <<delegates, state_, held, heldView>>

removeAll_(q) ==
  \E c \in { Collect(heap, Null, held) } :
      /\ state_' = c.s
      /\ heap' = c.h
      /\ held' = c.r
      /\ shadow' = [k \in Ids |-> NullObj]
      /\ cleared' = [on |-> TRUE, keys |-> { k \in Ids : shadow[k] # NullObj },
                   recs |-> { shadow[k] : k \in Ids } \ {NullObj}]
      /\ late' = FALSE
      /\ last' = [Call("removeAll", NullArg, NoObj) EXCEPT !.q = q, !.fresh = (state_ # Null)]
      /\ UNCHANGED others /\ UNCHANGED <<delegates, heldView>>

\* A reader takes the current token and keeps it.
Retain ==
  \E c \in { Collect(heap, state_, state_) } :
      /\ state_' = c.s
      /\ heap' = c.h
      /\ held' = c.r
      /\ heldView' = Strip(Deref(heap, state_))
      /\ last' = Call("retain", NullArg, NoObj)
      /\ UNCHANGED others /\ UNCHANGED <<delegates, shadow, cleared, late>>

\* The caller mutates the object it passed to put_ and still holds.
MutatePut(v) ==
  /\ \E x \in Marked(heap) : x.rec.a # v
  /\ heap' = SetMarked(heap, v)
  /\ last' = Call("mutatePut", NullArg, NoObj)
  /\ UNCHANGED others /\ UNCHANGED <<delegates, state_, held, heldView, shadow, cleared, late>>

\* The caller mutates the object find_ has just returned.
MutateFound(v) ==
  /\ last.op = "find"
  /\ last.ret # NoObj
  /\ last.ret.rec.a # v
  /\ heap' = IF last.ret.stored THEN SetStored(heap, last.ret.rec, v) ELSE heap
  /\ last' = [last EXCEPT !.op = "mutateFound", !.ret.rec.a = v]
  /\ UNCHANGED others /\ UNCHANGED <<delegates, state_, held, heldView, shadow, cleared, late>>

Next ==
  \/ \E p \in SecProps : addIndex(p)
  \/ \E r \in Record : put_(r, FALSE)
  \/ \E o \in RemoveArgs : remove_(o)
  \/ \E q \in RemoveAllQueries : removeAll_(q)
  \/ \E o \in FindArgs : find_(o)
  \/ \E q \in Queries : select_(q)

Spec == Init /\ [][Next]_vars

\* Writers next to a reader that keeps the token it obtained.
NextSnapshot ==
  \/ \E p \in SecProps : addIndex(p)
  \/ \E r \in Record : put_(r, FALSE)
  \/ \E o \in RemoveArgs : remove_(o)
  \/ \E q \in RemoveAllQueries : removeAll_(q)
  \/ Retain

SpecSnapshot == Init /\ [][NextSnapshot]_vars

\* Callers that keep, and later mutate, the objects they exchanged with the DAO.
NextMutation ==
  \/ \E p \in SecProps : addIndex(p)
  \/ \E r \in Record : put_(r, TRUE)
  \/ \E o \in RemoveArgs : remove_(o)
  \/ \E k \in Ids : find_(KeyArg(k))
  \/ \E v \in AVals : MutatePut(v)
  \/ \E v \in AVals : MutateFound(v)

SpecMutation == Init /\ [][NextMutation]_vars

\* ------------------------------------------------------------------ threads
\* Two threads call put_ / remove_ on the same MDAO with no lock; a call
\* advances one step at a time: find, then for each assignment to state_ the
\* read of state_ with the index operation on it, then the write of state_.
AllIdle == \A t \in Threads : calls[t].pc = "idle"
AllDone == \A t \in Threads : calls[t].pc = "done"

\* The first thread puts; the second puts or removes.
StartCalls(obj1, op2, obj2) ==
  /\ AllIdle
  /\ calls' = [t \in Threads |->
                 IF t = 1 THEN ThreadCall("find", "put", obj1, NoObj, <<>>)
                          ELSE ThreadCall("find", op2, obj2, NoObj, <<>>)]
  /\ UNCHANGED <<handlerMap_, made, reqs>> /\ UNCHANGED <<delegates, state_, heap, held, heldView, shadow, cleared, late, last>>

\* FObject oldValue = find(obj)  /  FObject found = find(obj)
StepFind(t) ==
  /\ calls[t].pc = "find"
  /\ \E v \in { find(delegates, Deref(heap, state_), ObjArg(calls[t].obj)) } :
       calls' = [calls EXCEPT ![t].oldValue = v,
                               ![t].pc = IF v # NoObj THEN "remove"
                                         ELSE IF calls[t].op = "put" THEN "put" ELSE "done"]
  /\ UNCHANGED <<handlerMap_, made, reqs>> /\ UNCHANGED <<delegates, state_, heap, held, heldView, shadow, cleared, late, last>>

\* index_.remove(state_, oldValue): state_ is read and the new state built.
StepIndexRemove(t) ==
  /\ calls[t].pc = "remove"
  /\ calls' = [calls EXCEPT
                 ![t].res = AltRemove(delegates, Deref(heap, state_), calls[t].oldValue.rec),
                 ![t].pc = "write"]
  /\ UNCHANGED <<handlerMap_, made, reqs>> /\ UNCHANGED <<delegates, state_, heap, held, heldView, shadow, cleared, late, last>>

\* index_.put(state_, obj): state_ is read and the new state built.
StepIndexPut(t) ==
  /\ calls[t].pc = "put"
  /\ calls' = [calls EXCEPT
                 ![t].res = AltPut(delegates, Deref(heap, state_), calls[t].obj, FALSE),
                 ![t].oldValue = NoObj,
                 ![t].pc = "write"]
  /\ UNCHANGED <<handlerMap_, made, reqs>> /\ UNCHANGED <<delegates, state_, heap, held, heldView, shadow, cleared, late, last>>

\* state_ = <the state the index operation returned>
StepWrite(t) ==
  /\ calls[t].pc = "write"
  /\ \E w \in { CopyOnWrite(heap, state_, calls[t].res) } :
     \E c \in { Collect(w.h, w.t, held) } :
       /\ state_' = c.s
       /\ heap' = c.h
       /\ held' = c.r
  /\ calls' = [calls EXCEPT
                 ![t].res = <<>>,
                 ![t].pc = IF calls[t].op = "put" /\ calls[t].oldValue # NoObj
                           THEN "put" ELSE "done"]
  /\ UNCHANGED <<handlerMap_, made, reqs>> /\ UNCHANGED <<delegates, heldView, shadow, cleared, late, last>>

\* Both calls have returned.
ReturnCalls ==
  /\ AllDone
  /\ calls' = [t \in Threads |-> Idle]
  /\ UNCHANGED <<handlerMap_, made, reqs>> /\ UNCHANGED <<delegates, state_, heap, held, heldView, shadow, cleared, late, last>>

NextConcurrent ==
  \/ \E p \in SecProps : AllIdle /\ addIndex(p)
  \/ \E obj1 \in Record, op2 \in {"put", "remove"}, obj2 \in Record : StartCalls(obj1, op2, obj2)
  \/ \E t \in Threads : StepFind(t)
  \/ \E t \in Threads : StepIndexRemove(t)
  \/ \E t \in Threads : StepIndexPut(t)
  \/ \E t \in Threads : StepWrite(t)
  \/ ReturnCalls

SpecConcurrent == Init /\ [][NextConcurrent]_vars

\* The same two calls behind one lock: the second runs after the first.
HasLock(t) == t = 1 \/ calls[1].pc = "done"

NextSerialized ==
  \/ \E p \in SecProps : AllIdle /\ addIndex(p)
  \/ \E obj1 \in Record, op2 \in {"put", "remove"}, obj2 \in Record : StartCalls(obj1, op2, obj2)
  \/ \E t \in Threads : HasLock(t) /\ StepFind(t)
  \/ \E t \in Threads : HasLock(t) /\ StepIndexRemove(t)
  \/ \E t \in Threads : HasLock(t) /\ StepIndexPut(t)
  \/ \E t \in Threads : HasLock(t) /\ StepWrite(t)
  \/ ReturnCalls

SpecSerialized == Init /\ [][NextSerialized]_vars

\* ------------------------------------------------------------------ NanoRouter
\* Servlet containers serve requests on several threads; handlerMap_ is a
\* ConcurrentHashMap, so each containsKey, put and get is atomic by itself.

\* service(): spec = nSpecDAO.find(serviceKey); getServlet(spec, service)
StartRequest(t, n) ==
  /\ reqs[t].pc = "idle"
  /\ reqs' = [reqs EXCEPT ![t] =
                IF n = "none" THEN Request("returned", n, NoServlet, NoServlet)
                              ELSE Request("containsKey", n, NoServlet, NoServlet)]
  /\ UNCHANGED <<handlerMap_, made>> /\ UNCHANGED mdao

\* if ( ! handlerMap_.containsKey(spec.getName()) )
StepContainsKey(t) ==
  /\ reqs[t].pc = "containsKey"
  /\ reqs' = [reqs EXCEPT ![t].pc =
                IF handlerMap_[reqs[t].name] = NoServlet THEN "create" ELSE "get"]
  /\ UNCHANGED <<handlerMap_, made>> /\ UNCHANGED mdao

\* createServlet(spec, service): a new servlet object, or null.
StepCreateServlet(t) ==
  /\ reqs[t].pc = "create"
  /\ IF IsServlet(reqs[t].name)
     THEN /\ made' = [made EXCEPT ![reqs[t].name] = @ + 1]
          /\ reqs' = [reqs EXCEPT ![t].serv = made[reqs[t].name] + 1, ![t].pc = "put"]
     ELSE /\ made' = made
          /\ reqs' = [reqs EXCEPT ![t].serv = NoServlet, ![t].pc = "put"]
  /\ UNCHANGED <<handlerMap_>> /\ UNCHANGED mdao

\* handlerMap_.put(name, servlet); ConcurrentHashMap.put throws on a null
\* value and getServlet ends with the exception.
StepPut(t) ==
  /\ reqs[t].pc = "put"
  /\ IF reqs[t].serv = NoServlet
     THEN /\ handlerMap_' = handlerMap_
          /\ reqs' = [reqs EXCEPT ![t].pc = "thrown"]
     ELSE /\ handlerMap_' = [handlerMap_ EXCEPT ![reqs[t].name] = reqs[t].serv]
          /\ reqs' = [reqs EXCEPT ![t].pc = "get"]
  /\ UNCHANGED <<made>> /\ UNCHANGED mdao

\* return handlerMap_.get(spec.getName())
StepGet(t) ==
  /\ reqs[t].pc = "get"
  /\ reqs' = [reqs EXCEPT ![t].ret = handlerMap_[reqs[t].name], ![t].pc = "returned"]
  /\ UNCHANGED <<handlerMap_, made>> /\ UNCHANGED mdao

\* The request is over; the thread serves the next one.
EndRequest(t) ==
  /\ reqs[t].pc \in {"returned", "thrown"}
  /\ reqs' = [reqs EXCEPT ![t] = NoRequest]
  /\ UNCHANGED <<handlerMap_, made>> /\ UNCHANGED mdao

NextRouter ==
  \/ \E t \in Threads, n \in Names \cup {"none"} : StartRequest(t, n)
  \/ \E t \in Threads : StepContainsKey(t)
  \/ \E t \in Threads : StepCreateServlet(t)
  \/ \E t \in Threads : StepPut(t)
  \/ \E t \in Threads : StepGet(t)
  \/ \E t \in Threads : EndRequest(t)

SpecRouter == Init /\ [][NextRouter]_vars

\* ------------------------------------------------------------------ properties
Current   == Deref(heap, state_)
StoredSet == { shadow[k] : k \in Ids } \ {NullObj}
Range(seq) == { seq[i] : i \in 1..Len(seq) }
Count(r, seq) == Cardinality({ i \in 1..Len(seq) : seq[i] = r })
IsPlain(q) == q.skip = 0 /\ q.limit = MAX_SAFE_INTEGER /\ q.order = "none"
Matching(p) == { r \in StoredSet : Eval(p, r) }

\* C1: after any puts and removes, find of a key (given raw or as a record)
\* returns the record most recently put under it and not removed since, and
\* absent otherwise, however many alternatives are registered.
C1_FindReturnsLatest ==
  \A o \in FindArgs \ {NullArg} :
     find(delegates, Current, o).rec = shadow[KeyOf(o)]

C1_Witness ==
  /\ last.op = "find"
  /\ last.ret # NoObj
  /\ Len(delegates) >= 3
  /\ \E k \in Ids : shadow[k] = NullObj

\* C2: an unordered, unwindowed select with predicate P delivers exactly the
\* stored records that satisfy P.
C2_SelectExact ==
  (last.op = "select" /\ IsPlain(last.q)) => Range(last.sink) = Matching(last.q.pred)

\* C3: right after addIndex, every unordered, unwindowed select and every find
\* give what they gave without the new alternative.
C3_AddIndexTransparent ==
  last.op = "addIndex" =>
    LET before == SubSeq(delegates, 1, Len(delegates) - 1)
    IN  /\ \A q \in Queries : IsPlain(q) =>
             Range(select(delegates, Current, q, simplePredicate(q.pred)))
               = Range(select(before, Current, q, simplePredicate(q.pred)))
        /\ \A o \in FindArgs : find(delegates, Current, o) = find(before, Current, o)

\* C4: from removeAll_ until the next put_, every select delivers nothing and
\* find returns absent for every key removeAll_ wiped.
C4_EmptyAfterRemoveAll ==
  cleared.on =>
    /\ last.op = "select" => last.sink = <<>>
    /\ \A k \in Ids : find(delegates, Current, KeyArg(k)) = NoObj

C4_Witness ==
  /\ cleared.on
  /\ cleared.keys # {}
  /\ last.op = "select"
  /\ last.q.pred # NoPred
  /\ Len(delegates) >= 2

\* C5: an unwindowed select of a top-level disjunction delivers every stored
\* record once per disjunct it satisfies, and nothing else.
C5_OrOncePerDisjunct ==
  LET simple == simplePredicate(last.q.pred)
  IN  (last.op = "select" /\ simple.op = "or" /\ last.q.skip = 0
         /\ last.q.limit = MAX_SAFE_INTEGER) =>
        \A r \in Record :
           Count(r, last.sink) =
             IF r \in StoredSet
             THEN Cardinality({ i \in 1..Len(simple.args) : Eval(simple.args[i], r) })
             ELSE 0

\* C6: with an index on a registered before any record was put (and none
\* registered later), select(Eq(a,v)) delivers each stored record whose a is
\* v once and nothing else; select(Or(Eq(a,v1),Eq(a,v2))), v1 # v2, each
\* stored record whose a is v1 or v2 once and nothing else.
C6_Case ==
  /\ ~late
  /\ \E i \in 1..Len(delegates) : delegates[i] = "a"
  /\ last.op = "select"
  /\ IsPlain(last.q)
  /\ \/ last.q.pred \in AAtoms
     \/ \E v1 \in AVals, v2 \in AVals : v1 # v2 /\ last.q.pred = Or(<<Eq("a", v1), Eq("a", v2)>>)

C6_SecondaryIndexSelect ==
  C6_Case => \A r \in Record :
               Count(r, last.sink) = IF r \in Matching(last.q.pred) THEN 1 ELSE 0

C6_Witness ==
  /\ C6_Case
  /\ last.q.pred.op = "or"
  /\ Len(last.sink) = MaxId
  /\ \E i, j \in 1..Len(last.sink) : last.sink[i].a # last.sink[j].a

\* C7: put_ is an upsert: every alternative of the current state holds at
\* most one entry per primary key, every entry is the record most recently
\* put under its key, filed under that record's value of the indexed
\* property; put_ returns the object it was given.
C7_Upsert ==
  /\ \A i \in 1..Len(Current) : \A x \in Current[i] :
        /\ x.rec = shadow[x.rec.id]
        /\ x.k = Val(x.rec, delegates[i])
        /\ \A y \in Current[i] : y.rec.id = x.rec.id => y = x
  /\ last.op = "put" => last.ret = Obj(last.arg.rec, TRUE)

C7_Witness ==
  /\ last.op = "put"
  /\ last.old # NullObj
  /\ last.old.a # last.arg.rec.a
  /\ Len(Current) >= 2
  /\ Current[2] # {}

\* C8: find and remove of a key that is not stored (or of null) return
\* absent; remove of an absent record leaves state_ the token it was; remove
\* of a present record returns the record that was stored.
C8_AbsentIsExplicit ==
  /\ (last.op = "find" /\ last.arg.kind # "null" /\ shadow[KeyOf(last.arg)] = NullObj)
        => last.ret = NoObj
  /\ (last.op \in {"find", "remove"} /\ last.arg.kind = "null")
        => (last.ret = NoObj /\ ~last.fresh)
  /\ (last.op = "remove" /\ last.arg.kind # "null" /\ last.old = NullObj)
        => (last.ret = NoObj /\ ~last.fresh)
  /\ (last.op = "remove" /\ last.old # NullObj)
        => (last.ret.rec = last.old /\ last.fresh)

C8_Witness ==
  /\ last.op = "remove"
  /\ last.arg.kind = "obj"
  /\ last.old = NullObj
  /\ StoredSet # {}

\* What find returns for every key, and what select can see.
FindAll(dl, st) == [k \in Ids |-> find(dl, st, KeyArg(k))]

\* C9 (as amended): a caller mutating a record find returned changes neither
\* what find returns for any key nor the index state select reads.
C9_FoundCopyIndependent ==
  [][last'.op = "mutateFound" =>
       /\ FindAll(delegates', Deref(heap', state_')) = FindAll(delegates, Current)
       /\ Strip(Deref(heap', state_')) = Strip(Current)]_vars

C9_Witness ==
  /\ last.op = "mutateFound"
  /\ find(delegates, Current, last.arg).rec # last.ret.rec
  /\ find(delegates, Current, last.arg).rec = shadow[KeyOf(last.arg)]

\* C9 (as claimed): no mutation by a caller, of a record find returned or of
\* the object it passed to put_, changes what find returns.
C9_NoCallerMutationShows ==
  [][last'.op \in {"mutateFound", "mutatePut"} =>
       FindAll(delegates', Deref(heap', state_')) = FindAll(delegates, Current)]_vars

C11_RemoveAllIgnoresFilters ==
  last.op = "removeAll" =>
    /\ state_ = Null
    /\ \A r \in cleared.recs : find(delegates, Current, ObjArg(r)) = NoObj
    /\ select(delegates, Current, Plain(NoPred), NoPred) = <<>>

\* Both records were stored; one fails P, the other satisfies it but lies
\* before the window.
C11_Witness ==
  /\ last.op = "removeAll"
  /\ last.q = Query(Eq("a", 5), 1, 1, "a")
  /\ Cardinality(cleared.recs) = 2
  /\ \E r \in cleared.recs : ~Eval(last.q.pred, r)
  /\ \E r \in cleared.recs : Eval(last.q.pred, r)

\* The records an alternative's slot of the current state holds.
SlotRecords(i) == { x.rec : x \in toObjectArray(delegates, Current)[i] }

\* C12: in every reachable state every registered alternative holds exactly
\* the stored records.
C12_AlternativesAgree ==
  \A i \in 1..Len(delegates) : SlotRecords(i) = StoredSet

\* The same, in the states where no alternative was registered after a put.
C12_AgreeUnlessLate == late \/ C12_AlternativesAgree

\* What the sub-plans of the last select's disjunction push into the shared
\* buffer: each disjunct planned with skip 0, no limit and no order.
UnionBuffer ==
  LET simple == simplePredicate(last.q.pred)
  IN  IF simple.op = "or" THEN OrBuffer(delegates, Current, simple.args, 1) ELSE <<>>

Sorted(order, seq) ==
  order = "none" \/ \A i, j \in 1..Len(seq) : i < j => Val(seq[i], order) <= Val(seq[j], order)

\* C13: for a top-level disjunction the sink receives elements
\* skip+1 .. skip+limit of the ordered union of the sub-plans' unwindowed,
\* unordered results: at most limit records, in the caller's order.
C13_WindowOverUnion ==
  (last.op = "select" /\ simplePredicate(last.q.pred).op = "or") =>
    /\ last.sink = Window(SortBy(last.q.order, UnionBuffer), last.q.skip, last.q.limit)
    /\ Len(last.sink) <= last.q.limit
    /\ Len(last.sink) = Min(last.q.limit,
                            IF Len(UnionBuffer) > last.q.skip
                            THEN Len(UnionBuffer) - last.q.skip ELSE 0)
    /\ Sorted(last.q.order, last.sink)
    /\ \A r \in Record : Count(r, last.sink) <= Count(r, UnionBuffer)

\* Order, skip and limit all bite: the union is out of order, longer than
\* the window, and the sink receives its second element.
C13_Witness ==
  /\ last.op = "select"
  /\ simplePredicate(last.q.pred).op = "or"
  /\ last.q.order = "a"
  /\ last.q.skip = 1
  /\ last.q.limit = 1
  /\ Len(UnionBuffer) >= 3
  /\ ~Sorted("a", UnionBuffer)
  /\ Len(last.sink) = 1

\* The cost of the candidate plan alternative i offers for pred in the
\* current state, and the predicates select_ hands to planSelect.
PlanCost(i, pred) == TreeCost(delegates[i], toObjectArray(delegates, Current)[i], pred)

PlannedPreds ==
  UNION { LET simple == simplePredicate(q.pred)
          IN  IF simple.op = "or" THEN Range(simple.args) ELSE {simple} : q \in Queries }

SimplifyPreds ==
  Preds \cup { And(<<And(<<And(<<x>>)>>)>>) : x \in Atoms }
        \cup { And(<<And(<<x, y>>), And(<<y>>)>>) : x \in AAtoms, y \in IdAtoms }
        \cup { And(<<Or(<<x, y>>)>>) : x \in AAtoms, y \in Atoms }
        \cup { Or(<<And(<<x>>), And(<<And(<<y>>)>>)>>) : x \in AAtoms, y \in IdAtoms }

C15_TruthPreserved ==
  \A p \in SimplifyPreds : \A r \in Record : Eval(simplePredicate(p), r) = Eval(p, r)

C15_SameRecords ==
  \A p \in SimplifyPreds :
     Range(select(delegates, Current, Plain(p), simplePredicate(p)))
       = Range(select(delegates, Current, Plain(p), p))

C15_OrPathIffOr ==
  last.op = "select" =>
    last.sink = IF simplePredicate(last.q.pred).op = "or"
                THEN OrSelect(delegates, Current, last.q.skip, last.q.limit, last.q.order,
                              simplePredicate(last.q.pred))
                ELSE AltSelect(delegates, Current, last.q.skip, last.q.limit, last.q.order,
                               simplePredicate(last.q.pred))

\* C15: the simplified predicate has the truth value of the given one on
\* every record; select delivers the same records as it would planning with
\* the predicate as given; the disjunction path is taken exactly when the
\* simplified predicate is a top-level Or.
C15_SimplificationTransparent ==
  /\ C15_TruthPreserved
  /\ C15_SameRecords
  /\ C15_OrPathIffOr

\* The same, in the states where no alternative was registered after a put.
C15_TransparentUnlessLate == late \/ C15_SimplificationTransparent

\* The entries alternative i of the current state holds for primary key k.
EntriesFor(i, k) == { x \in toObjectArray(delegates, Current)[i] : x.rec.id = k }

\* C16: when two calls that ran with their steps interleaved have both
\* returned: two puts of distinct keys leave both records findable; two puts
\* of one key leave exactly one entry for it in every alternative; a put and
\* a remove of distinct keys leave the put record findable and the removed
\* key absent; a put and a remove of one key leave at most one entry for it.
C16_NoLostUpdate ==
  AllDone =>
    LET c1 == calls[1]
        c2 == calls[2]
    IN  /\ (c2.op = "put" /\ c1.obj.id # c2.obj.id) =>
              /\ find(delegates, Current, ObjArg(c1.obj)).rec = c1.obj
              /\ find(delegates, Current, ObjArg(c2.obj)).rec = c2.obj
        /\ (c2.op = "put" /\ c1.obj.id = c2.obj.id) =>
              \A i \in 1..Len(delegates) : Cardinality(EntriesFor(i, c1.obj.id)) = 1
        /\ (c2.op = "remove" /\ c1.obj.id # c2.obj.id) =>
              /\ find(delegates, Current, ObjArg(c1.obj)).rec = c1.obj
              /\ find(delegates, Current, ObjArg(c2.obj)) = NoObj
        /\ (c2.op = "remove" /\ c1.obj.id = c2.obj.id) =>
              \A i \in 1..Len(delegates) : Cardinality(EntriesFor(i, c1.obj.id)) <= 1

\* C17: a find_ or select_ call leaves state_, the index states and the
\* registered alternatives as they were, so what find returns for every key
\* and what an unfiltered select delivers are the same after the call as
\* before it.
C17_ReadsChangeNothing ==
  [][last'.op \in {"find", "select"} =>
       /\ state_' = state_
       /\ heap' = heap
       /\ delegates' = delegates
       /\ FindAll(delegates', Deref(heap', state_')) = FindAll(delegates, Current)
       /\ select(delegates', Deref(heap', state_'), Plain(NoPred), NoPred)
            = select(delegates, Current, Plain(NoPred), NoPred)]_vars

\* A select has just delivered both stored records from a state with a
\* secondary alternative.
C17_Witness ==
  /\ last.op = "select"
  /\ Len(last.sink) = MaxId
  /\ state_ # Null
  /\ Len(delegates) >= 2
  /\ \A k \in Ids : find(delegates, Current, KeyArg(k)).rec = shadow[k]

\* C18: createServlet constructs at most one servlet per service name, and
\* every getServlet call that returns a servlet for a name returns that
\* one, the first constructed.
C18_ServletCreatedOnce ==
  /\ \A n \in Names : made[n] <= 1
  /\ \A t \in Threads :
        (reqs[t].pc = "returned" /\ reqs[t].ret # NoServlet) => reqs[t].ret = 1

====
